---- MODULE Spec2Model ----
(***************************************************************************)
(* Model of the document-processing orchestration of the Anyfile front     *)
(* end: the React state of MainContent (selectedTool) and of the mounted   *)
(* ToolInterface (files, isProcessing, resultUrl, watermarkText), the      *)
(* event handlers that change it, and the asynchronous processTool runs.   *)
(*                                                                         *)
(* A handler is enabled exactly when the element that carries it is        *)
(* rendered (and not disabled) by the JSX of the current state.            *)
(* A processTool run is a closure: it works on the files, tool and         *)
(* watermark text of the render in which the button was clicked, and its   *)
(* setState calls only reach the component instance that started it.       *)
(***************************************************************************)
EXTENDS Integers, Sequences, FiniteSets, TLC

\* ------------------------------------------------------------------ bounds
MaxFiles == 2      \* longest file list a picker change or a drop delivers
MaxMounts == 2     \* how many times a tool is opened from the grid
MaxConfirms == 2   \* how many times Start Processing is clicked
MaxParts == 2      \* most parts a splitPDF call returns
MaxQuery == 2      \* longest search query typed in the Navbar

\* ------------------------------------------------------------- data values
NoTool == "null"   \* selectedTool === null
Null == 0          \* resultUrl === null; object URLs are numbered from 1

\* tool ids: the seven cases of the switch and two ids that take the default
SwitchTools == {"merge", "jpg-to-pdf", "split", "watermark",
                "remove-pages", "reorder-pages", "compress"}
OtherTools == {"pdf-to-jpg", "pdf-to-word"}
ToolIds == SwitchTools \cup OtherTools

\* candidate user files and their kind
Files == {"a.pdf", "b.pdf", "c.jpg"}
IsImage(f) == f = "c.jpg"

WatermarkDefault == "CONFIDENTIAL"
WatermarkTexts == {WatermarkDefault, "DRAFT"}

\* a FileList: distinct files in the order the user submitted them
FileLists ==
  {s \in UNION {[1..n -> Files] : n \in 0..MaxFiles} :
     \A i, j \in 1..Len(s) : i # j => s[i] # s[j]}

VARIABLES
  selectedTool,   \* MainContent: the open tool, or NoTool
  inst,           \* number of ToolInterface instances mounted so far
  files,          \* ToolInterface: staged files
  isProcessing,   \* ToolInterface: processing flag
  resultUrl,      \* ToolInterface: object URL of the artifact, or Null
  watermarkText,  \* ToolInterface: watermark text
  runs,           \* processTool runs that have started and not resolved
  nConfirm,       \* number of processTool runs started so far
  outcome,        \* how the latest run of the mounted instance ended
  liveUrls,       \* object URLs created and not revoked
  searchQuery,    \* MainContent: the query typed in the Navbar
  ev              \* the last step taken, with its inputs

vars == <<selectedTool, inst, files, isProcessing, resultUrl, watermarkText,
          runs, nConfirm, outcome, liveUrls, searchQuery, ev>>

\* ------------------------------------------------------------ JSX helpers
\* tool.id === 'merge' || tool.id === 'jpg-to-pdf'
IsMultiple(t) == t = "merge" \/ t = "jpg-to-pdf"

\* tool.id.includes('jpg')
IncludesJpg(t) == t \in {"jpg-to-pdf", "pdf-to-jpg"}

\* accept={... ? 'image/*' : '.pdf,.doc,...'}
Accepts(t, f) == IF IncludesJpg(t) THEN IsImage(f) ELSE ~IsImage(f)

\* what a change event of the file input can carry: files of the accepted
\* kind, and at most one file unless the input has the multiple attribute
PickerOffers(t) ==
  {s \in FileLists : /\ \A i \in 1..Len(s) : Accepts(t, s[i])
                     /\ (~IsMultiple(t) => Len(s) <= 1)}

\* which branch of the content area is rendered
Mounted == selectedTool # NoTool
ResultView == Mounted /\ resultUrl # Null
DropZoneView == Mounted /\ resultUrl = Null /\ Len(files) = 0
FileListView == Mounted /\ resultUrl = Null /\ Len(files) # 0

\* variant of RemoveAt: the entries after index i are dropped as well
RemoveAtTruncates(s, i) == SubSeq(s, 1, i - 1)

\* files.filter((_, idx) => idx !== i), with i counted from 1
RemoveAt(s, i) == [k \in 1..(Len(s) - 1) |-> IF k < i THEN s[k] ELSE s[k + 1]]

\* ---------------------------------------------------------------- Init
Init ==
  /\ selectedTool = NoTool
  /\ inst = 0
  /\ files = <<>>
  /\ isProcessing = FALSE
  /\ resultUrl = Null
  /\ watermarkText = WatermarkDefault
  /\ runs = {}
  /\ nConfirm = 0
  /\ outcome = "none"
  /\ liveUrls = {}
  /\ searchQuery = <<>>
  /\ ev = [op |-> "init"]

\* ------------------------------------------------------ MainContent steps
\* ToolGrid onSelectTool={setSelectedTool}: a fresh ToolInterface is mounted
SelectTool(t) ==
  /\ ~Mounted
  /\ inst < MaxMounts
  /\ selectedTool' = t
  /\ inst' = inst + 1
  /\ files' = <<>>
  /\ isProcessing' = FALSE
  /\ resultUrl' = Null
  /\ watermarkText' = WatermarkDefault
  /\ outcome' = "none"
  /\ ev' = [op |-> "select", tool |-> t]
  /\ UNCHANGED <<runs, nConfirm, liveUrls>>
  /\ UNCHANGED searchQuery

\* Back button: onBack() = setSelectedTool(null); the instance is unmounted
\* and its state is gone
Back ==
  /\ Mounted
  /\ selectedTool' = NoTool
  /\ files' = <<>>
  /\ isProcessing' = FALSE
  /\ resultUrl' = Null
  /\ watermarkText' = WatermarkDefault
  /\ outcome' = "none"
  /\ ev' = [op |-> "back"]
  /\ UNCHANGED <<inst, runs, nConfirm, liveUrls>>
  /\ UNCHANGED searchQuery

\* ---------------------------------------------------- ToolInterface steps
\* handleFiles: change event of the hidden file input of the drop zone
HandleFiles(list) ==
  /\ DropZoneView
  /\ list \in PickerOffers(selectedTool)
  /\ Len(list) > 0
  /\ files' = list
  /\ resultUrl' = Null
  /\ ev' = [op |-> "pick", list |-> list]
  /\ UNCHANGED <<selectedTool, inst, isProcessing, watermarkText, runs,
                 nConfirm, outcome, liveUrls>>
  /\ UNCHANGED searchQuery

\* variant of DroppedToStage: the single-file truncation is missing
DroppedToStageAll(t, droppedFiles) == droppedFiles

\* what handleDrop stages of the dropped files
DroppedToStage(t, droppedFiles) ==
  IF IsMultiple(t) THEN droppedFiles ELSE <<droppedFiles[1]>>

\* handleDrop: drop event on the drop zone; anything can be dragged in, also
\* a drag that carries no file (dataTransfer.files.length === 0), for which
\* the handler only plays the ripple and the click sound
HandleDrop(list) ==
  /\ DropZoneView
  /\ list \in FileLists
  /\ IF Len(list) > 0
       THEN /\ files' = DroppedToStage(selectedTool, list)
            /\ resultUrl' = Null
       ELSE UNCHANGED <<files, resultUrl>>
  /\ ev' = [op |-> "drop", list |-> list, alert |-> FALSE]
  /\ UNCHANGED <<selectedTool, inst, isProcessing, watermarkText, runs,
                 nConfirm, outcome, liveUrls>>
  /\ UNCHANGED searchQuery

\* the X button of the staged file at index i
RemoveFile(i) ==
  /\ FileListView
  /\ i \in 1..Len(files)
  /\ files' = RemoveAt(files, i)
  /\ ev' = [op |-> "remove", idx |-> i, before |-> files,
            urlBefore |-> resultUrl, procBefore |-> isProcessing]
  /\ UNCHANGED <<selectedTool, inst, isProcessing, resultUrl, watermarkText,
                 runs, nConfirm, outcome, liveUrls>>
  /\ UNCHANGED searchQuery

\* the watermark text input, rendered for the watermark tool only
SetWatermarkText(t) ==
  /\ FileListView
  /\ selectedTool = "watermark"
  /\ t \in WatermarkTexts
  /\ t # watermarkText
  /\ watermarkText' = t
  /\ ev' = [op |-> "wm", text |-> t]
  /\ UNCHANGED <<selectedTool, inst, files, isProcessing, resultUrl, runs,
                 nConfirm, outcome, liveUrls>>
  /\ UNCHANGED searchQuery

\* variant of Reset: the runs of the instance are dropped with the files
ResetCancels ==
  /\ FileListView
  /\ files' = <<>>
  /\ runs' = {r \in runs : r.inst # inst}
  /\ ev' = [op |-> "reset", processing |-> isProcessing, outcome |-> outcome]
  /\ UNCHANGED <<selectedTool, inst, isProcessing, resultUrl, watermarkText,
                 nConfirm, outcome, liveUrls>>
  /\ UNCHANGED searchQuery

\* Reset button: setFiles([])
Reset ==
  /\ FileListView
  /\ files' = <<>>
  /\ ev' = [op |-> "reset", processing |-> isProcessing, outcome |-> outcome]
  /\ UNCHANGED <<selectedTool, inst, isProcessing, resultUrl, watermarkText,
                 runs, nConfirm, outcome, liveUrls>>
  /\ UNCHANGED searchQuery

\* variant of NewTask: only the files are cleared, as Reset does
NewTaskKeepsUrl ==
  /\ ResultView
  /\ files' = <<>>
  /\ ev' = [op |-> "newtask", processing |-> isProcessing, outcome |-> outcome]
  /\ UNCHANGED <<selectedTool, inst, isProcessing, resultUrl, watermarkText,
                 runs, nConfirm, outcome, liveUrls>>
  /\ UNCHANGED searchQuery

\* New Task button: setFiles([]); setResultUrl(null)
NewTask ==
  /\ ResultView
  /\ files' = <<>>
  /\ resultUrl' = Null
  /\ ev' = [op |-> "newtask", processing |-> isProcessing, outcome |-> outcome]
  /\ UNCHANGED <<selectedTool, inst, isProcessing, watermarkText, runs,
                 nConfirm, outcome, liveUrls>>
  /\ UNCHANGED searchQuery

\* ------------------------------------------------------------ processTool
\* variant of StartEnabled: the button lacks disabled={isProcessing}
StartEnabledIgnoringFlag == FileListView

\* the Start Processing button is rendered and not disabled
StartEnabled == FileListView /\ ~isProcessing

\* variant of LibFn: the switch has no case for compress
LibFnNoCompress(t) ==
  CASE t = "merge" -> "mergePDFs"
    [] t = "jpg-to-pdf" -> "imagesToPDF"
    [] t = "split" -> "splitPDF"
    [] t = "watermark" -> "addWatermark"
    [] t = "remove-pages" -> "removePages"
    [] t = "reorder-pages" -> "reorderPages"
    [] OTHER -> "mockServerProcess"

\* the switch on tool.id: which library function is called
LibFn(t) ==
  CASE t = "merge" -> "mergePDFs"
    [] t = "jpg-to-pdf" -> "imagesToPDF"
    [] t = "split" -> "splitPDF"
    [] t = "watermark" -> "addWatermark"
    [] t = "remove-pages" -> "removePages"
    [] t = "reorder-pages" -> "reorderPages"
    [] t = "compress" -> "compressPDF"
    [] OTHER -> "mockServerProcess"

\* files[0]
First(fs) == IF Len(fs) = 0 THEN "undefined" ELSE fs[1]

\* variant of LibInputs: every case passes files[0]
LibInputsFirstOnly(t, fs) == <<First(fs)>>

\* the files argument of the call: files for merge and jpg-to-pdf, files[0]
\* for every other case
LibInputs(t, fs) == IF IsMultiple(t) THEN fs ELSE <<First(fs)>>

\* the second argument of the call
LibParam(t, wm) ==
  CASE t = "watermark" -> wm
    [] t \in SwitchTools \ {"watermark"} -> "none"
    [] OTHER -> t

\* variant of ClosureFiles: the run reads the files staged when it resumes
ClosureFilesLive(r) == files

\* a run reads the files of the render in which the button was clicked
ClosureFiles(r) == r.files

\* variant of Alive: the state lives outside the instance, so a run's
\* setState calls reach whatever instance is mounted
AliveAnyInstance(r) == Mounted

\* a run's setState calls reach only the instance that started it
Alive(r) == Mounted /\ r.inst = inst

\* click on Start Processing: up to the first await
ProcessTool ==
  /\ StartEnabled
  /\ nConfirm < MaxConfirms
  /\ IF Len(files) = 0
       THEN /\ ev' = [op |-> "confirm-empty", alert |-> FALSE]
            /\ UNCHANGED <<isProcessing, runs, nConfirm, outcome>>
       ELSE /\ isProcessing' = TRUE
            /\ nConfirm' = nConfirm + 1
            /\ runs' = runs \cup {[id |-> nConfirm + 1, inst |-> inst,
                                   tool |-> selectedTool, files |-> files,
                                   wm |-> watermarkText, pc |-> "delay",
                                   ncalls |-> 0]}
            /\ outcome' = "none"
            /\ ev' = [op |-> "confirm", id |-> nConfirm + 1, staged |-> files]
  /\ UNCHANGED <<selectedTool, inst, files, resultUrl, watermarkText,
                 liveUrls>>
  /\ UNCHANGED searchQuery

\* variant of ClosureText: the run reads the text shown when it resumes
ClosureTextLive(r) == watermarkText

\* a run reads the watermark text of the render in which the button was
\* clicked
ClosureText(r) == r.wm

\* the 1500 ms delay has passed: the switch calls the library function
CallLibrary(r) ==
  /\ r \in runs
  /\ r.pc = "delay"
  /\ runs' = (runs \ {r}) \cup
             {[r EXCEPT !.pc = "called", !.ncalls = r.ncalls + 1]}
  /\ ev' = [op |-> "call", id |-> r.id, tool |-> r.tool, fn |-> LibFn(r.tool),
            inputs |-> LibInputs(r.tool, ClosureFiles(r)),
            param |-> LibParam(r.tool, ClosureText(r)), staged |-> r.files,
            wm |-> r.wm, filesBefore |-> files, wmBefore |-> watermarkText]
  /\ UNCHANGED <<selectedTool, inst, files, isProcessing, resultUrl,
                 watermarkText, nConfirm, outcome, liveUrls>>
  /\ UNCHANGED searchQuery

\* parts[0] when splitPDF returned no part
UndefinedPart == 0

\* the value a library call returns: splitPDF an array of parts, numbered
\* from 1 in page order, every other function one output
Parts(n) == [i \in 1..n |-> i]
LibReturnValues(t) ==
  IF t = "split" THEN {Parts(n) : n \in 0..MaxParts} ELSE {Parts(1)}

\* resultData: parts[0] for split, the returned value otherwise
ResultData(t, ret) ==
  IF t = "split"
    THEN (IF Len(ret) = 0 THEN UndefinedPart ELSE ret[1])
    ELSE ret[1]

\* new Blob([resultData], { type: 'application/pdf' })
BlobType(t) == "application/pdf"

\* download={`anyfile-export.pdf`}
DownloadName(t) == "anyfile-export.pdf"

\* variant of LibReturns: the object URL is revoked as soon as it is set
LibReturnsRevokes(r, ret) ==
  /\ r \in runs
  /\ r.pc = "called"
  /\ ret \in LibReturnValues(r.tool)
  /\ runs' = runs \ {r}
  /\ liveUrls' = liveUrls \ {r.id}
  /\ IF Alive(r)
       THEN /\ resultUrl' = r.id
            /\ isProcessing' = FALSE
            /\ outcome' = "ok"
       ELSE UNCHANGED <<resultUrl, isProcessing, outcome>>
  /\ ev' = [op |-> "ok", id |-> r.id, alive |-> Alive(r), url |-> r.id,
            alert |-> FALSE, ncalls |-> r.ncalls, tool |-> r.tool,
            staged |-> r.files, filesBefore |-> files,
            urlBefore |-> resultUrl, wmBefore |-> watermarkText,
            procBefore |-> isProcessing, inst |-> r.inst,
            ret |-> ret, data |-> ResultData(r.tool, ret),
            mime |-> BlobType(r.tool), filename |-> DownloadName(r.tool)]
  /\ UNCHANGED <<selectedTool, inst, files, watermarkText, nConfirm>>
  /\ UNCHANGED searchQuery

\* variant of LibReturns: success also clears the staged files
LibReturnsClearsFiles(r, ret) ==
  /\ r \in runs
  /\ r.pc = "called"
  /\ ret \in LibReturnValues(r.tool)
  /\ runs' = runs \ {r}
  /\ liveUrls' = liveUrls \cup {r.id}
  /\ IF Alive(r)
       THEN /\ resultUrl' = r.id
            /\ isProcessing' = FALSE
            /\ outcome' = "ok"
            /\ files' = <<>>
       ELSE UNCHANGED <<resultUrl, isProcessing, outcome, files>>
  /\ ev' = [op |-> "ok", id |-> r.id, alive |-> Alive(r), url |-> r.id,
            alert |-> FALSE, ncalls |-> r.ncalls, tool |-> r.tool,
            staged |-> r.files, filesBefore |-> files,
            urlBefore |-> resultUrl, wmBefore |-> watermarkText,
            procBefore |-> isProcessing, inst |-> r.inst,
            ret |-> ret, data |-> ResultData(r.tool, ret),
            mime |-> BlobType(r.tool), filename |-> DownloadName(r.tool)]
  /\ UNCHANGED <<selectedTool, inst, watermarkText, nConfirm>>
  /\ UNCHANGED searchQuery

\* variant of LibReturns: the flag is cleared on the failure path only
LibReturnsLeavesFlag(r, ret) ==
  /\ r \in runs
  /\ r.pc = "called"
  /\ ret \in LibReturnValues(r.tool)
  /\ runs' = runs \ {r}
  /\ liveUrls' = liveUrls \cup {r.id}
  /\ IF Alive(r)
       THEN /\ resultUrl' = r.id
            /\ outcome' = "ok"
       ELSE UNCHANGED <<resultUrl, outcome>>
  /\ ev' = [op |-> "ok", id |-> r.id, alive |-> Alive(r), url |-> r.id,
            alert |-> FALSE, ncalls |-> r.ncalls, tool |-> r.tool,
            staged |-> r.files, filesBefore |-> files,
            urlBefore |-> resultUrl, wmBefore |-> watermarkText,
            procBefore |-> isProcessing, inst |-> r.inst,
            ret |-> ret, data |-> ResultData(r.tool, ret),
            mime |-> BlobType(r.tool), filename |-> DownloadName(r.tool)]
  /\ UNCHANGED <<selectedTool, inst, files, isProcessing, watermarkText,
                 nConfirm>>
  /\ UNCHANGED searchQuery

\* the library call returned: Blob, createObjectURL, setResultUrl, finally
LibReturns(r, ret) ==
  /\ r \in runs
  /\ r.pc = "called"
  /\ ret \in LibReturnValues(r.tool)
  /\ runs' = runs \ {r}
  /\ liveUrls' = liveUrls \cup {r.id}
  /\ IF Alive(r)
       THEN /\ resultUrl' = r.id
            /\ isProcessing' = FALSE
            /\ outcome' = "ok"
       ELSE UNCHANGED <<resultUrl, isProcessing, outcome>>
  /\ ev' = [op |-> "ok", id |-> r.id, alive |-> Alive(r), url |-> r.id,
            alert |-> FALSE, ncalls |-> r.ncalls, tool |-> r.tool,
            staged |-> r.files, filesBefore |-> files,
            urlBefore |-> resultUrl, wmBefore |-> watermarkText,
            procBefore |-> isProcessing, inst |-> r.inst,
            ret |-> ret, data |-> ResultData(r.tool, ret),
            mime |-> BlobType(r.tool), filename |-> DownloadName(r.tool)]
  /\ UNCHANGED <<selectedTool, inst, files, watermarkText, nConfirm>>
  /\ UNCHANGED searchQuery

\* variant of LibThrows: no finally block, the flag is not cleared
LibThrowsLeavesFlag(r) ==
  /\ r \in runs
  /\ r.pc = "called"
  /\ runs' = runs \ {r}
  /\ IF Alive(r)
       THEN outcome' = "fail"
       ELSE UNCHANGED outcome
  /\ ev' = [op |-> "fail", id |-> r.id, alive |-> Alive(r), url |-> Null,
            alert |-> TRUE, ncalls |-> r.ncalls, tool |-> r.tool,
            staged |-> r.files, filesBefore |-> files,
            urlBefore |-> resultUrl, wmBefore |-> watermarkText,
            procBefore |-> isProcessing, inst |-> r.inst]
  /\ UNCHANGED <<selectedTool, inst, files, isProcessing, resultUrl,
                 watermarkText, nConfirm, liveUrls>>
  /\ UNCHANGED searchQuery

\* the library call threw: catch (alert), finally
LibThrows(r) ==
  /\ r \in runs
  /\ r.pc = "called"
  /\ runs' = runs \ {r}
  /\ IF Alive(r)
       THEN /\ isProcessing' = FALSE
            /\ outcome' = "fail"
       ELSE UNCHANGED <<isProcessing, outcome>>
  /\ ev' = [op |-> "fail", id |-> r.id, alive |-> Alive(r), url |-> Null,
            alert |-> TRUE, ncalls |-> r.ncalls, tool |-> r.tool,
            staged |-> r.files, filesBefore |-> files,
            urlBefore |-> resultUrl, wmBefore |-> watermarkText,
            procBefore |-> isProcessing, inst |-> r.inst]
  /\ UNCHANGED <<selectedTool, inst, files, resultUrl, watermarkText,
                 nConfirm, liveUrls>>
  /\ UNCHANGED searchQuery

\* ============================================================ tool grid
\* the characters of titles, descriptions and queries
Letters == {"a", "b", "A", "B"}

\* String.prototype.toLowerCase
ToLowerChar(c) == CASE c = "A" -> "a" [] c = "B" -> "b" [] OTHER -> c
ToLowerCase(str) == [i \in 1..Len(str) |-> ToLowerChar(str[i])]

\* String.prototype.includes
Includes(str, q) ==
  \E i \in 0..(Len(str) - Len(q)) : SubSeq(str, i + 1, i + Len(q)) = q

\* what can be typed in the search input
Queries == UNION {[1..n -> Letters] : n \in 0..MaxQuery}

\* TOOLS: one card per tool, with its title and description
TOOLS ==
  << [id |-> "merge", title |-> <<"A", "b">>, description |-> <<"a">>],
     [id |-> "split", title |-> <<"A">>, description |-> <<"a", "a">>],
     [id |-> "compress", title |-> <<"B", "a">>, description |-> <<"b">>],
     [id |-> "pdf-to-jpg", title |-> <<"a">>, description |-> <<"A">>],
     [id |-> "jpg-to-pdf", title |-> <<"a", "A">>, description |-> <<"a">>],
     [id |-> "pdf-to-word", title |-> <<"A">>, description |-> <<"a">>],
     [id |-> "remove-pages", title |-> <<"B">>,
      description |-> <<"a", "b">>],
     [id |-> "reorder-pages", title |-> <<"b">>,
      description |-> <<"B", "a">>],
     [id |-> "watermark", title |-> <<"A", "B">>, description |-> <<"b">>] >>

\* CATEGORIES: the tool ids of the three sections
CATEGORIES ==
  << [id |-> "essentials", tools |-> {"merge", "split", "compress"}],
     [id |-> "converters",
      tools |-> {"pdf-to-jpg", "jpg-to-pdf", "word-to-pdf", "pdf-to-word",
                 "pdf-to-ppt", "ppt-to-pdf", "excel-to-pdf"}],
     [id |-> "management",
      tools |-> {"extract-text", "remove-pages", "reorder-pages",
                 "watermark", "protect"}] >>

\* TOOLS.filter(t => category.tools.includes(t.id))
InCategory(category, t) == t.id \in category.tools
CategoryTools(category) ==
  SelectSeq(TOOLS, LAMBDA t : InCategory(category, t))

\* ToolGrid: searchQuery.length > 0
IsFiltering(q) == Len(q) > 0

\* BentoCard: isMatch
IsMatch(tool, q) ==
  LET lq == ToLowerCase(q)
  IN  Includes(ToLowerCase(tool.title), lq) \/
        Includes(ToLowerCase(tool.description), lq)

\* CategorySection: hasMatches
HasMatches(tools, q) ==
  LET lq == ToLowerCase(q)
  IN  \E i \in 1..Len(tools) :
        Includes(ToLowerCase(tools[i].title), lq) \/
          Includes(ToLowerCase(tools[i].description), lq)

\* CategorySection returns null
CategoryHidden(category, q) ==
  IsFiltering(q) /\ ~HasMatches(CategoryTools(category), q)

\* ToolGrid: noMatches, the condition of the 'No tools found' message
NoMatches(q) ==
  IF ~IsFiltering(q)
    THEN FALSE
    ELSE LET lq == ToLowerCase(q)
         IN  \A i \in 1..Len(TOOLS) :
               ~Includes(ToLowerCase(TOOLS[i].title), lq) /\
                 ~Includes(ToLowerCase(TOOLS[i].description), lq)

\* variant of CardSelectable: a dimmed card still takes the click
CardSelectableAlways(tool, q) == TRUE

\* BentoCard: the click reaches onSelect (no early return, no
\* pointer-events-none)
CardSelectable(tool, q) == ~(IsFiltering(q) /\ ~IsMatch(tool, q))

\* Navbar handleSearchChange: setSearchQuery(q); onSearch(q)
HandleSearchChange(q) ==
  /\ q \in Queries
  /\ q # searchQuery
  /\ searchQuery' = q
  /\ ev' = [op |-> "search", query |-> q]
  /\ UNCHANGED <<selectedTool, inst, files, isProcessing, resultUrl,
                 watermarkText, runs, nConfirm, outcome, liveUrls>>

\* click on the card of TOOLS[i] in the grid
CardClick(i) ==
  /\ ~Mounted
  /\ i \in 1..Len(TOOLS)
  /\ IF CardSelectable(TOOLS[i], searchQuery)
       THEN SelectTool(TOOLS[i].id)
       ELSE /\ ev' = [op |-> "click-dimmed", tool |-> TOOLS[i].id]
            /\ UNCHANGED <<selectedTool, inst, files, isProcessing, resultUrl,
                           watermarkText, runs, nConfirm, outcome, liveUrls,
                           searchQuery>>

GridNext ==
  \/ \E q \in Queries : HandleSearchChange(q)
  \/ \E i \in 1..Len(TOOLS) : CardClick(i)
  \/ Back

GridSpec == Init /\ [][GridNext]_vars

\* ================================================================ claims
\* the cardinality classes and the acceptance rule, as the design states them
MultiFileTools == {"merge", "jpg-to-pdf"}
SingleFileTools == ToolIds \ MultiFileTools
RunsOf(i) == {r \in runs : r.inst = i}
Resolved == ev.op \in {"ok", "fail"}
Intake == ev.op \in {"pick", "drop"}

\* C1: single-flight - no ToolInterface instance ever has more than one
\* processTool run that has started and not resolved.
C1_SingleFlight == \A i \in 1..(MaxMounts + 1) : Cardinality(RunsOf(i)) <= 1

\* a run is in flight while the user has re-staged other files: the Start
\* Processing button is shown, and it must not start a second run
C1_Witness ==
  \E r \in runs : Alive(r) /\ FileListView /\ files # r.files /\ nConfirm = 1

\* C2: when the library call of a run of the mounted instance throws, the
\* run creates no artifact and resultUrl stays null, the error is alerted,
\* the processing flag is cleared, the staged files are untouched and, if
\* any are staged, Start Processing is enabled again; no resolution both
\* creates an artifact and alerts.
C2_FailureLeavesRetry ==
  /\ (ev.op = "fail" /\ ev.alive) =>
        /\ ev.url = Null
        /\ resultUrl = Null
        /\ ev.alert
        /\ ~isProcessing
        /\ files = ev.filesBefore
        /\ (Len(files) # 0 => StartEnabled)
  /\ Resolved => ~(ev.url # Null /\ ev.alert)

\* a run failed with the files it was started with still staged
C2_Witness ==
  ev.op = "fail" /\ ev.alive /\ files = ev.staged /\ Len(files) = MaxFiles

\* C3: every library call receives inputs of the tool's cardinality class:
\* real files only, exactly one for a single-file tool, one or more for a
\* multi-file tool, never zero.
C3_CallCardinality ==
  ev.op = "call" =>
    /\ Len(ev.inputs) >= 1
    /\ \A i \in 1..Len(ev.inputs) : ev.inputs[i] \in Files
    /\ (ev.tool \in SingleFileTools => Len(ev.inputs) = 1)

\* the call of a run whose files the user cleared during the delay
C3_Witness == ev.op = "call" /\ Len(files) = 0 /\ Len(ev.inputs) >= 1

\* C4: for a single-file tool, a picker change or a drop of more than one
\* file stages exactly the first submitted file.
C4_SingleKeepsFirst ==
  (Intake /\ selectedTool \in SingleFileTools /\ Len(ev.list) > 1) =>
     files = <<ev.list[1]>>

\* more than one file was submitted to a single-file tool
C4_Witness ==
  Intake /\ selectedTool \in SingleFileTools /\ Len(ev.list) > 1

\* C5: for a multi-file tool every submitted file is staged in submission
\* order, the run started by confirm works on exactly the list staged at
\* that moment, the library receives that list complete and in order, and
\* removing a staged file deletes that entry only, keeping the others'
\* order.
C5_MultiOrdered ==
  /\ (Intake /\ selectedTool \in MultiFileTools) => files = ev.list
  /\ (ev.op = "confirm" /\ selectedTool \in MultiFileTools) =>
        /\ ev.staged = files
        /\ \E r \in runs : r.id = ev.id /\ r.files = files
  /\ (ev.op = "call" /\ ev.tool \in MultiFileTools) => ev.inputs = ev.staged
  /\ ev.op = "remove" =>
        /\ Len(files) = Len(ev.before) - 1
        /\ \A k \in 1..Len(files) :
              files[k] = ev.before[IF k < ev.idx THEN k ELSE k + 1]

\* a multi-file call with two files, made after the staged list changed
C5_Witness ==
  /\ ev.op = "call"
  /\ ev.tool \in MultiFileTools
  /\ Len(ev.inputs) = 2
  /\ files # ev.inputs

\* C6: a run calls one library function, once, and is not retried: the
\* function is the tool's own for the seven named tools and the generic
\* fallback with the tool id as parameter for every other tool.
C6_OneCallPerConfirm ==
  /\ \A r \in runs : r.ncalls = (IF r.pc = "delay" THEN 0 ELSE 1)
  /\ Resolved => (ev.ncalls = 1 /\ \A r \in runs : r.id # ev.id)
  /\ ev.op = "call" =>
        /\ ev.tool = "merge" => ev.fn = "mergePDFs"
        /\ ev.tool = "jpg-to-pdf" => ev.fn = "imagesToPDF"
        /\ ev.tool = "split" => ev.fn = "splitPDF"
        /\ ev.tool = "watermark" => ev.fn = "addWatermark"
        /\ ev.tool = "remove-pages" => ev.fn = "removePages"
        /\ ev.tool = "reorder-pages" => ev.fn = "reorderPages"
        /\ ev.tool = "compress" => ev.fn = "compressPDF"
        /\ ev.tool \notin SwitchTools =>
              (ev.fn = "mockServerProcess" /\ ev.param = ev.tool)

\* the call of a compress run has failed
C6_Witness == ev.op = "fail" /\ ev.tool = "compress"

\* C7: right after Reset or New Task the session is Idle - zero staged
\* files, no held artifact, no run in flight - and it keeps no artifact
\* while nothing is staged.
C7_ResetReachesIdle ==
  /\ ev.op \in {"reset", "newtask"} =>
        /\ Len(files) = 0
        /\ resultUrl = Null
        /\ ~isProcessing
        /\ RunsOf(inst) = {}
  /\ (Mounted /\ Len(files) = 0) => resultUrl = Null

\* C8: New Task (from Succeeded) and Reset after a failed run (from Failed)
\* leave the session Idle: zero staged files, resultUrl null, nothing in
\* flight.
C8_ResetFromTerminal ==
  (ev.op = "newtask" \/ (ev.op = "reset" /\ ev.outcome = "fail")) =>
     /\ Len(files) = 0
     /\ resultUrl = Null
     /\ ~isProcessing
     /\ RunsOf(inst) = {}

\* New Task was clicked on the result view
C8_Witness == ev.op = "newtask" /\ ev.outcome = "ok"

\* C9: a file of a kind the tool does not accept is never staged and never
\* passed to a library function.
C9_OnlyAcceptedTypes ==
  /\ Mounted => \A i \in 1..Len(files) : Accepts(selectedTool, files[i])
  /\ ev.op = "call" =>
        \A i \in 1..Len(ev.inputs) : Accepts(ev.tool, ev.inputs[i])

\* C10: every failed attempt ends with a surfaced error: a run that
\* resolves ends with an artifact or with an alert, a failed one always with
\* the alert, and an intake that is rejected for carrying no file (a drop
\* without files, a confirm with zero files) alerts as well.
C10_NoSilentFailure ==
  /\ Resolved => (ev.url # Null \/ ev.alert)
  /\ ev.op = "fail" => ev.alert
  /\ (ev.op = "drop" /\ Len(ev.list) = 0) => ev.alert
  /\ ev.op = "confirm-empty" => ev.alert

\* C11: Processing is entered only by confirm with at least one staged file
\* and no held artifact, an artifact becomes held and an error is surfaced
\* only by the resolution of a run that was in flight, and an artifact is
\* never held while zero files are staged.
C11_StateOrder ==
  /\ ev.op = "confirm" =>
        (Len(ev.staged) >= 1 /\ resultUrl = Null /\ isProcessing)
  /\ (Resolved /\ ev.alive) => (ev.ncalls = 1 /\ ~isProcessing)
  /\ ResultView => (outcome = "ok" /\ Len(files) # 0)

\* C12: a run that has started is never cancelled and resolves - with the
\* library call returned or thrown - whatever the user does, and a raised
\* processing flag is lowered again, with the run's outcome shown unless the
\* user left the tool with Back.
C12_EventuallyResolves ==
  /\ \A k \in 1..MaxConfirms :
        (\E r \in runs : r.id = k) ~> (Resolved /\ ev.id = k)
  /\ isProcessing ~> (~isProcessing /\ (outcome # "none" \/ ev.op = "back"))

\* the user has reset the staged files while the run is in flight
C12_Witness ==
  ev.op = "reset" /\ ev.processing /\ RunsOf(inst) # {}

\* C13: the artifact of a split run is the first part splitPDF returned,
\* and a split run ends in success only when that first part exists.
C13_SplitFirstPart ==
  (ev.op = "ok" /\ ev.tool = "split") =>
     (Len(ev.ret) >= 1 /\ ev.data = ev.ret[1])

\* C14: a fresh session shows the default text and only the text input
\* changes it; the watermark run holds the text shown at the click, and
\* addWatermark receives that text and the first file staged at the click,
\* whatever is typed afterwards.
C14_WatermarkTextAtConfirm ==
  /\ [](/\ ev.op = "select" => watermarkText = "CONFIDENTIAL"
        /\ (ev.op = "confirm" /\ selectedTool = "watermark") =>
              \E r \in runs : r.id = ev.id /\ r.wm = watermarkText
        /\ (ev.op = "call" /\ ev.tool = "watermark") =>
              /\ ev.fn = "addWatermark"
              /\ ev.param = ev.wm
              /\ ev.inputs = <<ev.staged[1]>>)
  /\ [][(inst' = inst /\ ev'.op # "wm" /\ ev'.op # "back") =>
           watermarkText' = watermarkText]_vars

\* the text was edited between the click and the library call
C14_Witness ==
  /\ ev.op = "call"
  /\ ev.tool = "watermark"
  /\ selectedTool = "watermark"
  /\ ev.param # watermarkText

\* the MIME type of each tool's output format
OutputMime(t) ==
  CASE t = "pdf-to-jpg" -> "image/jpeg"
    [] t = "pdf-to-word" ->
         "application/vnd.openxmlformats-officedocument.wordprocessingml.document"
    [] OTHER -> "application/pdf"

\* C15: the artifact of a successful run carries the MIME type of its
\* tool's output format and a file name.
C15_MimeOfTool ==
  ev.op = "ok" => (ev.mime = OutputMime(ev.tool) /\ ev.filename # "")

\* C16: the object URL the session holds has been created and not revoked.
C16_HeldUrlValid ==
  /\ resultUrl # Null => resultUrl \in liveUrls
  /\ ev.op = "ok" => ev.url \in liveUrls

\* the session holds its second artifact
C16_Witness == ResultView /\ resultUrl = 2 /\ liveUrls = {1, 2}

\* C17: after New Task, Reset or Back no object URL created before is
\* still live.
C17_UrlsReleased ==
  ev.op \in {"newtask", "reset", "back"} => liveUrls = {}

\* C18: the steps of a run leave the staged files and the watermark text as
\* they were, and the library receives the files staged at the click (all
\* of them for a multi-file tool, the first otherwise).
C18_NoSideEffect ==
  /\ ev.op \in {"call", "ok", "fail"} =>
        (files = ev.filesBefore /\ watermarkText = ev.wmBefore)
  /\ ev.op = "confirm" =>
        (files = ev.staged /\ \E r \in runs : r.id = ev.id /\ r.files = files)
  /\ ev.op = "call" =>
        ev.inputs = (IF ev.tool \in MultiFileTools
                       THEN ev.staged ELSE <<ev.staged[1]>>)

\* a run succeeded after the user had staged other files, which stay staged
C18_Witness ==
  ev.op = "ok" /\ ev.alive /\ Len(files) > 0 /\ files # ev.staged

\* C19: an artifact becomes held only with the files it was computed from
\* still staged (while it is held no handler that changes the files is
\* rendered).
C19_ArtifactOfStagedFiles ==
  /\ (ev.op = "ok" /\ ev.alive) => files = ev.staged
  /\ ResultView => Len(files) # 0

\* C20: for the mounted instance the flag is up exactly while one of its
\* runs is in flight, and both ways a run resolves lower it.
C20_FlagTracksRun ==
  /\ Mounted => (isProcessing <=> RunsOf(inst) # {})
  /\ (Resolved /\ ev.alive) => ~isProcessing

\* the flag is up over the empty drop zone
C20_Witness == DropZoneView /\ isProcessing /\ RunsOf(inst) # {}

\* C21: the X button of index i removes that entry only - the list is one
\* shorter and the other entries keep their order - and leaves resultUrl
\* and the processing flag as they were; removing the only staged file
\* leaves the drop zone.
C21_RemoveOnlyThatEntry ==
  ev.op = "remove" =>
    /\ Len(files) = Len(ev.before) - 1
    /\ \A k \in 1..Len(ev.before) :
          /\ k < ev.idx => files[k] = ev.before[k]
          /\ k > ev.idx => files[k - 1] = ev.before[k]
    /\ resultUrl = ev.urlBefore
    /\ isProcessing = ev.procBefore
    /\ (Len(ev.before) = 1 => DropZoneView)

\* the first of two staged files was removed while a run was in flight
C21_Witness ==
  ev.op = "remove" /\ ev.idx = 1 /\ Len(ev.before) = 2 /\ isProcessing

\* C22: a tool opened from the grid starts with zero staged files, no
\* artifact and the flag down, and the resolution of a run started by an
\* instance that was left with Back changes neither resultUrl nor the flag
\* nor the files of the instance now mounted.
C22_SessionsIsolated ==
  /\ ev.op = "select" =>
        (Len(files) = 0 /\ resultUrl = Null /\ ~isProcessing)
  /\ (Resolved /\ ev.inst # inst) =>
        /\ resultUrl = ev.urlBefore
        /\ isProcessing = ev.procBefore
        /\ files = ev.filesBefore
  /\ resultUrl # Null => outcome = "ok"

\* a run of a discarded session returns while the new session is itself
\* processing
C22_Witness ==
  ev.op = "ok" /\ ev.inst # inst /\ Mounted /\ isProcessing

\* the card of a tool id, and a match stated letter by letter
CardOf(id) == CHOOSE i \in 1..Len(TOOLS) : TOOLS[i].id = id
SameLetter(x, y) ==
  x = y \/ {x, y} = {"a", "A"} \/ {x, y} = {"b", "B"}
ContainsIgnoringCase(str, q) ==
  \E i \in 0..(Len(str) - Len(q)) :
    \A k \in 1..Len(q) : SameLetter(str[i + k], q[k])
Matching(i, q) ==
  ContainsIgnoringCase(TOOLS[i].title, q) \/
    ContainsIgnoringCase(TOOLS[i].description, q)

Next ==
  \/ \E t \in ToolIds : SelectTool(t)
  \/ Back
  \/ \E list \in FileLists : HandleFiles(list)
  \/ \E list \in FileLists : HandleDrop(list)
  \/ \E i \in 1..MaxFiles : RemoveFile(i)
  \/ \E t \in WatermarkTexts : SetWatermarkText(t)
  \/ Reset
  \/ NewTask
  \/ ProcessTool
  \/ \E r \in runs : CallLibrary(r)
  \/ \E r \in runs : \E ret \in LibReturnValues(r.tool) : LibReturns(r, ret)
  \/ \E r \in runs : LibThrows(r)

Spec == Init /\ [][Next]_vars

\* the timer of the delay fires and the awaited library call settles: every
\* run takes its next step
RunFairness ==
  \A k \in 1..MaxConfirms :
    /\ WF_vars(\E r \in runs : r.id = k /\ CallLibrary(r))
    /\ WF_vars(\E r \in runs : r.id = k /\
                 (LibThrows(r) \/
                    \E ret \in LibReturnValues(r.tool) : LibReturns(r, ret)))

\* the tools opened in the runs checked for progress: one multi-file tool
\* (files can be removed one by one) and the tool with the text input
LiveTools == {"merge", "watermark"}

NextLive ==
  \/ \E t \in LiveTools : SelectTool(t)
  \/ Back
  \/ \E list \in FileLists : HandleFiles(list)
  \/ \E list \in FileLists : HandleDrop(list)
  \/ \E i \in 1..MaxFiles : RemoveFile(i)
  \/ \E t \in WatermarkTexts : SetWatermarkText(t)
  \/ Reset
  \/ NewTask
  \/ ProcessTool
  \/ \E r \in runs : CallLibrary(r)
  \/ \E r \in runs : \E ret \in LibReturnValues(r.tool) : LibReturns(r, ret)
  \/ \E r \in runs : LibThrows(r)

FairSpec == Init /\ [][NextLive]_vars /\ RunFairness
====
